---- MODULE Spec2Model ----
(***************************************************************************)
(* A model of main_app.py, a Streamlit script.  Streamlit runs the script  *)
(* top to bottom once when a session starts and once more after every      *)
(* widget interaction; a run is one step of the state machine below.       *)
(*                                                                         *)
(* Text is a sequence of one-character strings, so that substring and      *)
(* regular-expression matching are computed rather than assumed.           *)
(*                                                                         *)
(* A DataFrame is [columns, rows]: the set of column names and the         *)
(* sequence of rows; the index label of a row is its position (1-based     *)
(* here, 0-based in pandas).  A cell is a record with a flag `na` (NaN or  *)
(* None) and the value; list-valued cells also carry `list`, which is      *)
(* FALSE for a value that is not a Python list.  A selection of a          *)
(* DataFrame (filtered_movies) is [bound, columns, index]: the columns it  *)
(* kept and the index labels of the rows it kept, in order.                *)
(***************************************************************************)
EXTENDS Integers, Sequences, FiniteSets, TLC

(***************************************************************************)
(* Bounds of the model.                                                    *)
(***************************************************************************)
\* longest JSON array the remote source returns
MaxLen == 2
\* most genres selected at once in the multiselect
MaxSelected == 2

(***************************************************************************)
(* Cells.                                                                  *)
(***************************************************************************)
Str(s) == [na |-> FALSE, s |-> s]
NaStr == [na |-> TRUE, s |-> <<>>]
Num(n) == [na |-> FALSE, v |-> n]
NaNum == [na |-> TRUE, v |-> 0]
List(l) == [na |-> FALSE, list |-> TRUE, v |-> l]
NotAList == [na |-> FALSE, list |-> FALSE, v |-> <<>>]
NaList == [na |-> TRUE, list |-> FALSE, v |-> <<>>]

\* isinstance(x, list)
IsList(x) == ~x.na /\ x.list

Range(s) == {s[i] : i \in DOMAIN s}
Min(S) == CHOOSE x \in S : \A y \in S : x <= y
Max(S) == CHOOSE x \in S : \A y \in S : x >= y

(***************************************************************************)
(* load_movie_data: the fallback sample data.                              *)
(***************************************************************************)
FallbackTitles ==
  << <<"T","h","e"," ","S","h","a","w","s","h","a","n","k"," ",
       "R","e","d","e","m","p","t","i","o","n">>,
     <<"T","h","e"," ","G","o","d","f","a","t","h","e","r">>,
     <<"T","h","e"," ","D","a","r","k"," ","K","n","i","g","h","t">>,
     <<"P","u","l","p"," ","F","i","c","t","i","o","n">>,
     <<"F","o","r","r","e","s","t"," ","G","u","m","p">>,
     <<"I","n","c","e","p","t","i","o","n">>,
     <<"T","h","e"," ","M","a","t","r","i","x">>,
     <<"G","o","o","d","f","e","l","l","a","s">>,
     <<"T","h","e"," ","S","i","l","e","n","c","e"," ","o","f"," ","t","h","e"," ",
       "L","a","m","b","s">>,
     <<"I","n","t","e","r","s","t","e","l","l","a","r">> >>

FallbackYears == <<1994, 1972, 2008, 1994, 1994, 2010, 1999, 1990, 1991, 2014>>

FallbackGenres ==
  << <<"Drama">>, <<"Crime", "Drama">>, <<"Action", "Drama">>,
     <<"Crime", "Drama">>, <<"Drama", "Romance">>, <<"Action", "Sci-Fi">>,
     <<"Action", "Sci-Fi">>, <<"Crime", "Drama">>, <<"Crime", "Thriller">>,
     <<"Adventure", "Drama", "Sci-Fi">> >>

\* pd.DataFrame({'title': [...], 'year': [...], 'genres': [...]})
Fallback ==
  [columns |-> {"title", "year", "genres"},
   rows |-> [i \in DOMAIN FallbackTitles |->
               [title |-> Str(FallbackTitles[i]),
                year |-> Num(FallbackYears[i]),
                genres |-> List(FallbackGenres[i]),
                cast |-> NaList]]]

(***************************************************************************)
(* What the remote source may answer: the JSON objects of a movie array.   *)
(* `keys` are the keys the object has; a key it lacks, and a key whose     *)
(* value is null, both hold an na cell.  Every object has the key title,  *)
(* possibly null; year, genres and cast may be absent, null or malformed.  *)
(***************************************************************************)
Movies ==
  { [keys |-> {"title", "year", "genres", "cast"},
     title |-> Str(<<"A", "b">>), year |-> Num(1990),
     genres |-> List(<<"Drama">>),
     cast |-> List(<<"p", "q", "r", "s">>)],
    [keys |-> {"title", "year", "genres"},
     title |-> Str(<<"a", ".">>), year |-> Num(2008),
     genres |-> List(<<"Crime", "drama">>),
     cast |-> NaList],
    [keys |-> {"title", "year", "genres", "cast"},
     title |-> NaStr, year |-> NaNum,
     genres |-> NotAList,
     cast |-> NaList],
    [keys |-> {"title"},
     title |-> Str(<<"b">>), year |-> NaNum,
     genres |-> NaList,
     cast |-> NaList] }

RECURSIVE SeqsUpTo(_, _)
SeqsUpTo(S, n) ==
  IF n = 0 THEN {<<>>}
  ELSE LET shorter == SeqsUpTo(S, n - 1)
       IN shorter \cup {Append(s, x) : s \in {t \in shorter : Len(t) = n - 1}, x \in S}

\* pd.DataFrame(list of dicts): a column for every key that occurs
DataFrame(objs) ==
  [columns |-> UNION {objs[i].keys : i \in DOMAIN objs},
   rows |-> [i \in DOMAIN objs |->
               [title |-> objs[i].title, year |-> objs[i].year,
                genres |-> objs[i].genres, cast |-> objs[i].cast]]]

(***************************************************************************)
(* The outcome of requests.get(url): it raises, or it returns a response   *)
(* with a status code and a body.  A body is not JSON ("text"), a JSON     *)
(* object of scalars ("object", e.g. {"message": "Not Found"}), or a JSON  *)
(* array of movie objects ("array").                                       *)
(***************************************************************************)
StatusCodes == {200, 404}

Responses ==
  {[raised |-> TRUE, status |-> 0, body |-> "none", array |-> <<>>]}
  \cup {[raised |-> FALSE, status |-> s, body |-> b, array |-> <<>>] :
          s \in StatusCodes, b \in {"text", "object"}}
  \cup {[raised |-> FALSE, status |-> s, body |-> "array", array |-> a] :
          s \in StatusCodes, a \in SeqsUpTo(Movies, MaxLen)}

NoResponse == [raised |-> FALSE, status |-> 0, body |-> "none", array |-> <<>>]

\* the try block raises: requests.get raises, response.json() raises on a body
\* that is not JSON, pd.DataFrame raises on a dict of scalars
TryRaises(resp) == resp.raised \/ resp.body \in {"text", "object"}

\* the body of load_movie_data on a cache miss: [df, error], error telling
\* whether st.error was called
FetchMovieData(resp) ==
  IF TryRaises(resp)
  THEN [df |-> Fallback, error |-> TRUE]
  ELSE [df |-> DataFrame(resp.array), error |-> FALSE]

\* @st.cache_data: the stored return value, <<>> while there is none
\* load_movie_data without the decorator
CacheHitNever(c) == FALSE
CacheHit(c) == c # <<>>

(***************************************************************************)
(* Year range filter.                                                      *)
(***************************************************************************)
HasColumn(df, c) == c \in df.columns

\* what min() and max() of the year column range over: NaN is skipped
YearsOf(df) == {df.rows[i].year.v : i \in {j \in DOMAIN df.rows : ~df.rows[j].year.na}}

\* int(movies_df['year'].min()): the minimum of a column with no value is NaN,
\* and int(NaN) raises ValueError
YearBoundsRaise(df) == YearsOf(df) = {}

year_min(df) == Min(YearsOf(df))
year_max(df) == Max(YearsOf(df))

\* the selection that is the DataFrame itself
WholeFrame(df) ==
  [bound |-> TRUE, columns |-> df.columns, index |-> [i \in DOMAIN df.rows |-> i]]

\* filtered_movies before its first assignment
NoView == [bound |-> FALSE, columns |-> {}, index |-> <<>>]

\* Take as pd.concat would do it: the selected rows are added to the frame
TakeAppended(view, mask) ==
  [view EXCEPT !.index = view.index \o SelectSeq(view.index, LAMBDA i : i \in mask)]

\* frame[mask] for a boolean mask, given as the set of index labels where it
\* is True: the rows of the frame with these labels, in the frame's order
Take(view, mask) ==
  [view EXCEPT !.index = SelectSeq(view.index, LAMBDA i : i \in mask)]

\* YearMask with > for >=
YearMaskAbove(df, year_range, i) ==
  /\ ~df.rows[i].year.na
  /\ df.rows[i].year.v > year_range[1]
  /\ df.rows[i].year.v <= year_range[2]

\* YearMask with < for <=
YearMaskBelow(df, year_range, i) ==
  /\ ~df.rows[i].year.na
  /\ df.rows[i].year.v >= year_range[1]
  /\ df.rows[i].year.v < year_range[2]

\* (movies_df['year'] >= year_range[0]) & (movies_df['year'] <= year_range[1]);
\* a comparison with NaN is False
YearMask(df, year_range, i) ==
  /\ ~df.rows[i].year.na
  /\ df.rows[i].year.v >= year_range[1]
  /\ df.rows[i].year.v <= year_range[2]

YearFilter(df, year_range) ==
  Take(WholeFrame(df), {i \in DOMAIN df.rows : YearMask(df, year_range, i)})

(***************************************************************************)
(* Genre filter.                                                           *)
(***************************************************************************)
\* the labels of every genres cell that is a list
all_genres(df) ==
  UNION {Range(df.rows[i].genres.v) : i \in {j \in DOMAIN df.rows : IsList(df.rows[j].genres)}}

\* GenreMask with all(...) for any(...)
GenreMaskAll(df, selected_genres, i) ==
  IF IsList(df.rows[i].genres)
  THEN \A genre \in selected_genres : genre \in Range(df.rows[i].genres.v)
  ELSE FALSE

\* any(genre in x for genre in selected_genres) if isinstance(x, list) else False
GenreMask(df, selected_genres, i) ==
  IF IsList(df.rows[i].genres)
  THEN \E genre \in selected_genres : genre \in Range(df.rows[i].genres.v)
  ELSE FALSE

\* filtered_movies[filtered_movies['genres'].apply(...)].  Series.apply on an
\* empty Series returns an empty Series of the column's dtype (object), which
\* is no boolean mask: the frame is then indexed by an empty list of column
\* names and comes back with no columns (and its zero rows).
GenreFilter(df, view, selected_genres) ==
  IF view.index = <<>>
  THEN [view EXCEPT !.columns = {}]
  ELSE Take(view, {i \in Range(view.index) : GenreMask(df, selected_genres, i)})

(***************************************************************************)
(* Title search: Series.str.contains(search_term, case=False, na=False).   *)
(* regex is left at its default, True, so search_term is compiled as a     *)
(* regular expression with re.IGNORECASE.  The fragment modelled: a        *)
(* letter, digit or space matches itself, "." matches any character, and   *)
(* "(" opens a group, which nothing in the terms of SearchTerms closes.    *)
(***************************************************************************)
\* str.lower on the letters A-Z
LowerOf ==
  ("A" :> "a") @@ ("B" :> "b") @@ ("C" :> "c") @@ ("D" :> "d") @@ ("E" :> "e")
  @@ ("F" :> "f") @@ ("G" :> "g") @@ ("H" :> "h") @@ ("I" :> "i") @@ ("J" :> "j")
  @@ ("K" :> "k") @@ ("L" :> "l") @@ ("M" :> "m") @@ ("N" :> "n") @@ ("O" :> "o")
  @@ ("P" :> "p") @@ ("Q" :> "q") @@ ("R" :> "r") @@ ("S" :> "s") @@ ("T" :> "t")
  @@ ("U" :> "u") @@ ("V" :> "v") @@ ("W" :> "w") @@ ("X" :> "x") @@ ("Y" :> "y")
  @@ ("Z" :> "z")

UpperCase == DOMAIN LowerOf

\* str.lower of one character
Lower(c) == IF c \in UpperCase THEN LowerOf[c] ELSE c

\* re.compile raises re.error: missing ), unterminated subpattern
RegexCompileRaises(pat) == "(" \in Range(pat)

RegexMatchChar(p, c) == p = "." \/ Lower(p) = Lower(c)

\* pat.search(text) is not None
RegexSearch(pat, text) ==
  \E k \in 1..(Len(text) + 1) :
    /\ k + Len(pat) - 1 <= Len(text)
    /\ \A j \in DOMAIN pat : RegexMatchChar(pat[j], text[k + j - 1])

\* na=False: a title that is NaN or None does not match
TitleMask(df, search_term, i) ==
  /\ ~df.rows[i].title.na
  /\ RegexSearch(search_term, df.rows[i].title.s)

TitleFilter(df, view, search_term) ==
  Take(view, {i \in Range(view.index) : TitleMask(df, search_term, i)})

(***************************************************************************)
(* The filter pipeline of one run, lines 49-92: the values the widgets     *)
(* return, the exception the run stops with ("none" when it goes on) and   *)
(* filtered_movies as last assigned.  `w` is what the user has set.        *)
(***************************************************************************)
YearSlider(df, w) ==
  IF w.year_range = <<>> THEN <<year_min(df), year_max(df)>> ELSE w.year_range

Pipeline(df, w) ==
  IF HasColumn(df, "year") /\ YearBoundsRaise(df)
  THEN [error |-> "ValueError:50", year_range |-> <<>>, filtered_movies |-> NoView]
  ELSE
    LET year_range == IF HasColumn(df, "year") THEN YearSlider(df, w) ELSE <<>>
        byYear == IF HasColumn(df, "year") THEN YearFilter(df, year_range)
                  ELSE WholeFrame(df)
        selected_genres ==
          IF HasColumn(df, "genres") /\ all_genres(df) # {}
          THEN w.selected_genres ELSE {}
        byGenre == IF selected_genres # {} THEN GenreFilter(df, byYear, selected_genres)
                   ELSE byYear
    IN IF w.search_term = <<>>
       THEN [error |-> "none", year_range |-> year_range, filtered_movies |-> byGenre]
       ELSE IF ~HasColumn(byGenre, "title")
       THEN [error |-> "KeyError:91", year_range |-> year_range,
             filtered_movies |-> byGenre]
       ELSE IF RegexCompileRaises(w.search_term)
       THEN [error |-> "re.error:91", year_range |-> year_range,
             filtered_movies |-> byGenre]
       ELSE [error |-> "none", year_range |-> year_range,
             filtered_movies |-> TitleFilter(df, byGenre, w.search_term)]

(***************************************************************************)
(* Browse tab: filtered_movies.head(num_display), one container per row.   *)
(***************************************************************************)
FirstRows(s, n) == SubSeq(s, 1, IF Len(s) < n THEN Len(s) ELSE n)

\* what one container shows besides the title of row i: the year, genres and
\* cast when the row has them (cast cut to `n` names)
Container(df, view, i, n) ==
  [idx |-> i,
   year |-> IF HasColumn(view, "year") THEN <<df.rows[i].year>> ELSE <<>>,
   genres |-> IF HasColumn(view, "genres") /\ IsList(df.rows[i].genres)
              THEN <<df.rows[i].genres.v>> ELSE <<>>,
   cast |-> IF HasColumn(view, "cast") /\ IsList(df.rows[i].cast)
            THEN <<FirstRows(df.rows[i].cast.v, n)>> ELSE <<>>]

\* row['title'] raises KeyError when the frame has rows and no title column
BrowseRaises(view) == view.index # <<>> /\ ~HasColumn(view, "title")

Browse(df, view, num_display) ==
  LET shown == FirstRows(view.index, num_display)
  IN [k \in DOMAIN shown |-> Container(df, view, shown[k], 3)]

(***************************************************************************)
(* Random Pick tab.  `rnd` is the position sample(1) draws.                *)
(***************************************************************************)
\* PickRandom with movies_df.sample(1) for filtered_movies.sample(1)
PickRandomOfAll(df, view, rnd) ==
  IF Len(view.index) > 0
  THEN [random_movie |-> <<Container(df, view, CHOOSE i \in DOMAIN df.rows : TRUE, 5)>>,
        warning |-> FALSE]
  ELSE [random_movie |-> <<>>, warning |-> TRUE]

PickRandom(df, view, rnd) ==
  IF Len(view.index) > 0
  THEN [random_movie |-> <<Container(df, view, view.index[rnd], 5)>>, warning |-> FALSE]
  ELSE [random_movie |-> <<>>, warning |-> TRUE]

SampleChoices(view) == IF view.index = <<>> THEN {1} ELSE DOMAIN view.index

(***************************************************************************)
(* Statistics tab.                                                         *)
(***************************************************************************)
RECURSIVE CountIn(_, _)
\* how many elements of the list l are the label g
CountIn(l, g) ==
  IF l = <<>> THEN 0
  ELSE (IF l[1] = g THEN 1 ELSE 0) + CountIn(Tail(l), g)

RECURSIVE CountRows(_, _, _)
\* genre_counts[g] after rows 1..n
CountRows(df, n, g) ==
  IF n = 0 THEN 0
  ELSE CountRows(df, n - 1, g)
       + (IF IsList(df.rows[n].genres) THEN CountIn(df.rows[n].genres.v, g) ELSE 0)

Statistics(df, view) ==
  [total |-> Len(df.rows),
   year_range |-> IF HasColumn(df, "year") THEN <<year_min(df), year_max(df)>> ELSE <<>>,
   filtered |-> Len(view.index),
   genre_counts |-> IF HasColumn(df, "genres")
                    THEN [g \in all_genres(df) |-> CountRows(df, Len(df.rows), g)]
                    ELSE [g \in {} |-> 0]]

NoStatistics == [total |-> 0, year_range |-> <<>>, filtered |-> 0, genre_counts |-> [g \in {} |-> 0]]

(***************************************************************************)
(* What the user may enter.                                                *)
(***************************************************************************)
\* the ranges the user drags the slider to: the whole range, and those of
\* YearRanges that lie on the slider
YearRanges == {<<1990, 1999>>, <<2000, 2000>>}

SliderChoices(df) ==
  {<<year_min(df), year_max(df)>>}
  \cup {r \in YearRanges : year_min(df) <= r[1] /\ r[2] <= year_max(df)}

SearchTerms == {<<"a">>, <<".">>, <<"a", ".">>, <<"(">>, <<"t", "h", "e">>}

\* the genres the user picks among those the multiselect offers
GenrePicks == {"Drama", "Crime", "drama"}

\* the slider of line 104: st.slider(..., 5, 50, 10)
NumDisplayMin == 5
NumDisplayDefault == 10
NumDisplayChoices == {NumDisplayMin, NumDisplayDefault}

VARIABLES
  cache,            \* st.cache_data's entry for load_movie_data: <<>> or <<result>>
  fetches,          \* how many times requests.get was called
  response,         \* what the last requests.get did
  load_error,       \* st.error("Error loading data ...") is on the page
  movies_df,        \* the script's movies_df
  year_range,       \* value of the year slider, <<>> when it was not drawn
  selected_genres,  \* value of the genre multiselect
  search_term,      \* value of the title text input
  num_display,      \* value of the "Number of movies to display" slider
  error,            \* the exception that ended the last run; "none"; "notrun"
  filtered_movies,  \* the script's filtered_movies
  displayed,        \* the containers of the Browse tab
  recommended,      \* "Finding similar movies..." is shown
  random_movie,     \* <<container>> when a random movie is shown
  warning,          \* "No movies found with current filters!" is shown
  stats             \* the metrics and genre counts of the Statistics tab

vars == <<cache, fetches, response, load_error, movies_df, year_range, selected_genres,
          search_term, num_display, error, filtered_movies, displayed, recommended,
          random_movie, warning, stats>>

Init ==
  /\ cache = <<>>
  /\ fetches = 0
  /\ response = NoResponse
  /\ load_error = FALSE
  /\ movies_df = DataFrame(<<>>)
  /\ year_range = <<>>
  /\ selected_genres = {}
  /\ search_term = <<>>
  /\ num_display = NumDisplayDefault
  /\ error = "notrun"
  /\ filtered_movies = NoView
  /\ displayed = <<>>
  /\ recommended = FALSE
  /\ random_movie = <<>>
  /\ warning = FALSE
  /\ stats = NoStatistics

\* load_movie_data() under @st.cache_data: the stored value on a hit, the
\* function's body on a miss
LoadMovieData(resp) ==
  IF CacheHit(cache)
  THEN /\ UNCHANGED <<cache, fetches, response>>
       /\ load_error' = cache[1].error
       /\ movies_df' = cache[1].df
  ELSE LET got == FetchMovieData(resp)
       IN /\ cache' = <<got>>
          /\ fetches' = fetches + 1
          /\ response' = resp
          /\ load_error' = got.error
          /\ movies_df' = got.df

\* what requests.get may do in this run
Fetches == IF CacheHit(cache) THEN {NoResponse} ELSE Responses

(***************************************************************************)
(* One run of the script with the widgets at `w`; `press` is the button    *)
(* that caused it: "none", "pick" or "rec" (whichever row's button it is,  *)
(* the handler only shows the same message).                               *)
(***************************************************************************)
Run(w, press) ==
  \E resp \in Fetches :
    /\ LoadMovieData(resp)
    /\ \E df \in {movies_df'} :
       \E p \in {Pipeline(df, w)} :
       \E view \in {p.filtered_movies} :
          /\ year_range' = p.year_range
          /\ selected_genres' = w.selected_genres
          /\ search_term' = w.search_term
          /\ num_display' = w.num_display
          /\ filtered_movies' = view
          /\ IF p.error # "none"
             THEN /\ error' = p.error
                  /\ displayed' = <<>>
                  /\ recommended' = FALSE
                  /\ random_movie' = <<>>
                  /\ warning' = FALSE
                  /\ stats' = NoStatistics
             ELSE IF BrowseRaises(view)
             THEN /\ error' = "KeyError:112"
                  /\ displayed' = <<>>
                  /\ recommended' = FALSE
                  /\ random_movie' = <<>>
                  /\ warning' = FALSE
                  /\ stats' = NoStatistics
             ELSE /\ error' = "none"
                  /\ displayed' = Browse(df, view, w.num_display)
                  /\ recommended' = (press = "rec")
                  /\ IF press = "pick"
                     THEN \E rnd \in SampleChoices(view) :
                          \E pick \in {PickRandom(df, view, rnd)} :
                            /\ random_movie' = pick.random_movie
                            /\ warning' = pick.warning
                     ELSE /\ random_movie' = <<>>
                          /\ warning' = FALSE
                  /\ stats' = Statistics(df, view)

Widgets ==
  [year_range |-> year_range, selected_genres |-> selected_genres,
   search_term |-> search_term, num_display |-> num_display]

\* the widgets the last run drew before it ended
SidebarDrawn == error \notin {"notrun", "ValueError:50"}
TabsDrawn == error \in {"none", "KeyError:112"}

\* the first run of a session: no widget has a value yet
StartSession ==
  /\ error = "notrun"
  /\ Run(Widgets, "none")

MoveYearSlider ==
  /\ SidebarDrawn
  /\ HasColumn(movies_df, "year")
  /\ \E r \in SliderChoices(movies_df) :
       /\ r # year_range
       /\ Run([Widgets EXCEPT !.year_range = r], "none")

SelectGenres ==
  /\ SidebarDrawn
  /\ HasColumn(movies_df, "genres")
  /\ \E g \in all_genres(movies_df) \cap GenrePicks :
       LET chosen == IF g \in selected_genres THEN selected_genres \ {g}
                     ELSE selected_genres \cup {g}
       IN /\ Cardinality(chosen) <= MaxSelected
          /\ Run([Widgets EXCEPT !.selected_genres = chosen], "none")

TypeSearch ==
  /\ SidebarDrawn
  /\ \E t \in SearchTerms \cup {<<>>} :
       /\ t # search_term
       /\ Run([Widgets EXCEPT !.search_term = t], "none")

SetNumDisplay ==
  /\ TabsDrawn
  /\ \E n \in NumDisplayChoices :
       /\ n # num_display
       /\ Run([Widgets EXCEPT !.num_display = n], "none")

PressRecommend ==
  /\ error = "none"
  /\ displayed # <<>>
  /\ Run(Widgets, "rec")

PressPickRandom ==
  /\ error = "none"
  /\ Run(Widgets, "pick")

Next ==
  \/ StartSession
  \/ MoveYearSlider
  \/ SelectGenres
  \/ TypeSearch
  \/ SetNumDisplay
  \/ PressRecommend
  \/ PressPickRandom

Spec == Init /\ [][Next]_vars

(***************************************************************************)
(* The claims.  They speak of the state a run leaves: the collection       *)
(* movies_df, the criteria year_range, selected_genres and search_term,    *)
(* and the view filtered_movies.                                           *)
(***************************************************************************)
Ran == error # "notrun"

Rows == DOMAIN movies_df.rows
Kept == Range(filtered_movies.index)

Increasing(s) == \A a, b \in DOMAIN s : a < b => s[a] < s[b]

\* filtered_movies holds exactly the rows of S, in the collection's order
ViewIs(S) == filtered_movies.bound /\ Increasing(filtered_movies.index) /\ Kept = S

HasYear(i) == ~movies_df.rows[i].year.na

InYearRange(i) ==
  /\ HasYear(i)
  /\ year_range[1] <= movies_df.rows[i].year.v
  /\ movies_df.rows[i].year.v <= year_range[2]

PassesYear(i) == "year" \in movies_df.columns => InYearRange(i)

SharesGenre(i) ==
  /\ ~movies_df.rows[i].genres.na
  /\ movies_df.rows[i].genres.list
  /\ Range(movies_df.rows[i].genres.v) \cap selected_genres # {}

PassesGenre(i) == selected_genres = {} \/ SharesGenre(i)

\* `term` occurs in `text` as a literal substring, letter case ignored
ContainsLiteral(text, term) ==
  \E k \in 0..(Len(text) - Len(term)) :
    \A j \in DOMAIN term : Lower(text[k + j]) = Lower(term[j])

HasTitleWith(i, term) ==
  /\ ~movies_df.rows[i].title.na
  /\ ContainsLiteral(movies_df.rows[i].title.s, term)

PassesTitle(i) == search_term = <<>> \/ HasTitleWith(i, search_term)

\* C1: the view is a subsequence of the collection at all times: it holds
\* only rows of the collection, each at most once, in the collection's
\* order; the view of an empty collection is empty.
C1_ViewIsSubsequence ==
  /\ Kept \subseteq Rows
  /\ Increasing(filtered_movies.index)
  /\ (movies_df.rows = <<>> => filtered_movies.index = <<>>)

\* a view that dropped some rows and kept others, after all three filters ran
C1_Witness ==
  /\ error = "none"
  /\ selected_genres # {}
  /\ search_term # <<>>
  /\ Len(filtered_movies.index) >= 2
  /\ filtered_movies.index[1] > 1

\* C2: with no genre selected and no search term, the view is exactly the
\* rows whose year is present and within year_range, both ends included, and
\* every row when the collection has no year column; on the fallback data
\* with the range (1990, 1999) these are the six rows of years 1994, 1994,
\* 1994, 1999, 1990, 1991.
C2_YearFilter ==
  /\ (error = "none" /\ selected_genres = {} /\ search_term = <<>>)
       => ViewIs({i \in Rows : PassesYear(i)})
  /\ (/\ error = "none" /\ selected_genres = {} /\ search_term = <<>>
      /\ movies_df = Fallback /\ year_range = <<1990, 1999>>)
       => [k \in DOMAIN filtered_movies.index |->
             movies_df.rows[filtered_movies.index[k]].year.v]
          = <<1994, 1994, 1994, 1999, 1990, 1991>>

C2_Witness ==
  /\ error = "none" /\ selected_genres = {} /\ search_term = <<>>
  /\ movies_df = Fallback /\ year_range = <<1990, 1999>>
  /\ Len(filtered_movies.index) = 6

\* C3 as claimed: with year_range the collection's own (minimum, maximum), no
\* genre selected and no search term, the view is the whole collection.
C3_IdentityAtExtremes ==
  (/\ error = "none" /\ selected_genres = {} /\ search_term = <<>>
   /\ "year" \in movies_df.columns
   /\ year_range = <<year_min(movies_df), year_max(movies_df)>>)
    => filtered_movies.index = [i \in Rows |-> i]

\* C3 as amended: the same, for a collection whose every record has a year.
C3_IdentityWhenAllHaveYear ==
  (/\ error = "none" /\ selected_genres = {} /\ search_term = <<>>
   /\ "year" \in movies_df.columns
   /\ \A i \in Rows : HasYear(i)
   /\ year_range = <<year_min(movies_df), year_max(movies_df)>>)
    => filtered_movies.index = [i \in Rows |-> i]

C3_Witness ==
  /\ error = "none" /\ selected_genres = {} /\ search_term = <<>>
  /\ "year" \in movies_df.columns
  /\ \A i \in Rows : HasYear(i)
  /\ year_range = <<year_min(movies_df), year_max(movies_df)>>
  /\ year_range[1] < year_range[2]
  /\ Len(filtered_movies.index) >= 2

\* the fetch failed: requests.get raised, the status is not 2xx, or the body
\* is not a JSON array of movie objects
FetchFailed ==
  \/ response.raised
  \/ response.status \notin 200..299
  \/ response.body # "array"

\* C4: after a failed fetch the collection is exactly the fallback data and
\* the error message is on the page.
C4_FallbackOnAnyFailure ==
  (Ran /\ FetchFailed) => (movies_df = Fallback /\ load_error)

\* C5: with a search term the title filter keeps exactly the rows whose
\* title contains the term as a literal substring, letter case ignored, and
\* no run raises on it; with no search term it keeps every row.  (Stated for
\* a collection with a title column and no genre selected.)
C5_TitleFilterLiteral ==
  (/\ Ran /\ error # "ValueError:50"
   /\ "title" \in movies_df.columns /\ selected_genres = {})
    => /\ error = "none"
       /\ ViewIs({i \in Rows : PassesYear(i) /\ PassesTitle(i)})

PlainTerm(term) == \A j \in DOMAIN term : term[j] \notin {".", "("}

\* no row is left when the title filter is reached
EmptiedBeforeTitle == \A i \in Rows : ~(PassesYear(i) /\ PassesGenre(i))

\* C7: when the collection is empty, or the year and genre filters leave no
\* row, the run ends without error and the view is empty.
C7_EmptyViewWithoutError ==
  (Ran /\ error # "ValueError:50" /\ PlainTerm(search_term) /\ EmptiedBeforeTitle)
    => (error = "none" /\ filtered_movies.bound /\ filtered_movies.index = <<>>)

C9_AbsentAttributeNeverRaises == error # "ValueError:50"

\* C10: the remote source is fetched at most once; once loaded the cached
\* collection never changes and every run works on it; and the view is what
\* the pipeline makes of that collection and the present criteria.
C10_OneCollectionPerSession ==
  /\ [](fetches <= 1)
  /\ [](Ran => (cache # <<>> /\ movies_df = cache[1].df))
  /\ [](Ran => filtered_movies = Pipeline(movies_df, Widgets).filtered_movies)
  /\ [][cache # <<>> => cache' = cache]_vars

\* a run well into a session: criteria changed and a movie picked
C10_Witness ==
  /\ fetches = 1
  /\ selected_genres # {}
  /\ search_term # <<>>
  /\ random_movie # <<>>
====
